---- MODULE Spec2Model ----
(***************************************************************************)
(* I-VT fixation classifier of WToon/thesis-backend.                       *)
(*                                                                         *)
(* experiment.py subscribes gaze_data_callback to the eye tracker; every   *)
(* delivered sample runs ivt, which parses the sample, compares its gaze   *)
(* ray with the previous one, maintains fixation_duration and, when the    *)
(* counter equals FIXATION_TRIGGER, context-clicks the browser if the      *)
(* gaze point lies in a contingent area.                                   *)
(*                                                                         *)
(* Units.  User-space coordinates are integers; the inputs are chosen so   *)
(* that the mean of the two eyes is integral.  Display coordinates are in  *)
(* thousandths of the display (0..1000 for 0.0..1.0), pixel coordinates in *)
(* thousandths of a pixel.  Angular velocity is in microradians/second.    *)
(***************************************************************************)
EXTENDS Integers, Sequences, FiniteSets, TLC

VARIABLES
    previous_sample,    \* global previous_sample: None or <<origin, u_target, s_target>>
    fixation_duration,  \* global fixation_duration
    page_has_input,     \* browser page: does an <input> element exist
    streaming,          \* the tracker still delivers samples to the callback
    outcome,            \* how the last callback ended: "none", "returned", "TypeError"
    trigger_target,     \* s_target the trigger fired with on the last tick, or None
    click,              \* the context click dispatched on the last tick, or None
    in_window,          \* history: every sample so far was valid with a defined angle,
                        \*   at most one was a saccade, and there were at most MaxWindow
    sample_no,          \* history: samples delivered so far (0 once in_window is false)
    saccade_at,         \* history: sample number of the saccade in the window (0: none)
    triggers_in_run,    \* history: trigger ticks since the counter was last 0 (saturates at 2)
    last_valid,         \* history: the last sample parse_data accepted, or None
    since_reset,        \* history: fixation samples since the last saccade sample (-1: no saccade yet)
    pd_arg,             \* parse_data called on its own: the argument
    pd_done,            \* parse_data called on its own: has it returned
    pd_ret,             \* parse_data called on its own: the value returned
    ica_arg,            \* in_contingent_area called on its own: <<x, y>>
    ica_done,           \* in_contingent_area called on its own: has it returned
    ica_ret,            \* in_contingent_area called on its own: the value returned
    t_previous_sample,  \* tracker.py: global previous_sample
    t_fixation_duration,\* tracker.py: global fixation_duration
    t_printed,          \* tracker.py: s_target printed on the last tick, or None
    b_previous_sample,  \* a second run of experiment.py: global previous_sample
    b_fixation_duration,\* a second run of experiment.py: global fixation_duration
    b_trigger_target,   \* a second run: s_target of the trigger of its last tick, or None
    phase,              \* the two runs: "apart", "join" (the common saccade), "joined"
    differed,           \* history: the two runs' globals differed before the join
    th,                 \* per thread inside ivt: position and locals
    calls,              \* number of ivt invocations started by the threads
    fires,              \* number of trigger branches the threads have taken
    serial,             \* history: the globals and triggers had the invocations
                        \* run one after another in the order they started
    overlapped          \* history: an invocation started while another was running

vars == <<previous_sample, fixation_duration, page_has_input, streaming, outcome,
          trigger_target, click, in_window, sample_no, saccade_at,
          triggers_in_run, last_valid, since_reset, pd_arg, pd_done, pd_ret,
          ica_arg, ica_done, ica_ret,
          t_previous_sample, t_fixation_duration, t_printed,
          b_previous_sample, b_fixation_duration, b_trigger_target, phase, differed,
          th, calls, fires, serial, overlapped>>

thread_vars == <<th, calls, fires, serial, overlapped>>

pair_vars == <<b_previous_sample, b_fixation_duration, b_trigger_target, phase, differed>>

tracker_vars == <<t_previous_sample, t_fixation_duration, t_printed>>

area_vars == <<ica_arg, ica_done, ica_ret>>

\* the variables of the other specifications, which a session leaves alone
other_vars == <<area_vars, tracker_vars, pair_vars, thread_vars>>

(***************************************************************************)
(* Bounds                                                                  *)
(***************************************************************************)
\* the longest run of fixation samples followed
MaxDuration == 22
\* the longest window of regular samples numbered from the start of the session
MaxWindow == 21
\* the longest run of fixation samples followed when both scripts are fed
MaxTwinDuration == 28
\* the longest run of fixation samples followed when two runs are compared
MaxPairDuration == 17
\* the number of ivt invocations followed when threads deliver the callback
MaxCalls == 3

(***************************************************************************)
(* Constants of experiment.py                                              *)
(***************************************************************************)
SAMPLE_FREQ == 90
\* 0.349066 rad/s, in microradians per second
ANG_VELOCITY_THRESHOLD == 349066
\* 1/6*SAMPLE_FREQ evaluates to exactly 15.0 in IEEE doubles
FIXATION_TRIGGER == SAMPLE_FREQ \div 6

None == <<>>

\* body.size of the page body, read once before the tracker starts
body_size == [width |-> 800, height |-> 600]

(***************************************************************************)
(* Vector helpers (numpy)                                                  *)
(***************************************************************************)
np_subtract(a, b) == [i \in 1..Len(a) |-> a[i] - b[i]]

np_dot(a, b) == a[1]*b[1] + a[2]*b[2] + a[3]*b[3]

\* squared Euclidean norm: np.linalg.norm(vector)^2
norm2(v) == np_dot(v, v)

\* |a x b|^2
cross2(a, b) ==
    LET cx == a[2]*b[3] - a[3]*b[2]
        cy == a[3]*b[1] - a[1]*b[3]
        cz == a[1]*b[2] - a[2]*b[1]
    IN  cx*cx + cy*cy + cz*cz

\* the mean of two vertices; the inputs of the model have even sums, so the
\* integer quotient is the exact mean
average_vertex(v1, v2) ==
    IF Len(v1) # 3
    THEN [i \in 1..Len(v1) |-> (v1[i] + v2[i]) \div 2]
    ELSE <<(v1[1] + v2[1]) \div 2, (v1[2] + v2[2]) \div 2, (v1[3] + v2[3]) \div 2>>

(***************************************************************************)
(* Angle between two gaze rays                                             *)
(*                                                                         *)
(* unit_vector divides by the norm; a zero vector gives 0/0 = NaN in every *)
(* component (numpy warns, it does not raise).  A unit vector is kept as   *)
(* its direction and squared norm.  angle_between is arccos of the clipped *)
(* dot product of the unit vectors: the angle is kept as the sign of the   *)
(* dot product and sin^2 = cross2 / nn, which determine it in [0, pi].     *)
(***************************************************************************)
unit_vector(vector) ==
    [nan |-> norm2(vector) = 0, dir |-> vector, n2 |-> norm2(vector)]

angle_between(v1, v2) ==
    LET v1_u == unit_vector(v1)
        v2_u == unit_vector(v2)
    IN  [nan    |-> v1_u.nan \/ v2_u.nan,
         dot    |-> np_dot(v1_u.dir, v2_u.dir),
         cross2 |-> cross2(v1_u.dir, v2_u.dir),
         nn     |-> v1_u.n2 * v2_u.n2]

\* samples per threshold angle, in tenths: 10 / (ANG_VELOCITY_THRESHOLD / SAMPLE_FREQ)
ThresholdRatio == (SAMPLE_FREQ * 10000000) \div ANG_VELOCITY_THRESHOLD

\* angle*_SAMPLE_FREQ > ANG_VELOCITY_THRESHOLD.  A NaN angle compares False.
\* An angle of pi/2 or more (dot <= 0) exceeds the threshold angle t; below
\* pi/2, angle > t iff sin^2(angle) > sin^2(t), and sin(t) = t to 5e-6 for
\* t = 0.0038785 rad, so the test is cross2/nn > (1 / (ThresholdRatio/10))^2.
velocity_exceeds(angle) ==
    /\ ~angle.nan
    /\ \/ angle.dot <= 0
       \/ angle.cross2 > (angle.nn * 100) \div (ThresholdRatio * ThresholdRatio)

(***************************************************************************)
(* parse_data                                                              *)
(***************************************************************************)
parse_data_left_only(gaze_data) ==
    IF gaze_data.left_gaze_origin_validity
    THEN <<average_vertex(gaze_data.left_gaze_origin_in_user_coordinate_system,
                          gaze_data.right_gaze_origin_in_user_coordinate_system),
           average_vertex(gaze_data.left_gaze_point_in_user_coordinate_system,
                          gaze_data.right_gaze_point_in_user_coordinate_system),
           average_vertex(gaze_data.left_gaze_point_on_display_area,
                          gaze_data.right_gaze_point_on_display_area)>>
    ELSE None

parse_data(gaze_data) ==
    IF gaze_data.left_gaze_origin_validity /\ gaze_data.right_gaze_origin_validity
    THEN <<average_vertex(gaze_data.left_gaze_origin_in_user_coordinate_system,
                          gaze_data.right_gaze_origin_in_user_coordinate_system),
           average_vertex(gaze_data.left_gaze_point_in_user_coordinate_system,
                          gaze_data.right_gaze_point_in_user_coordinate_system),
           average_vertex(gaze_data.left_gaze_point_on_display_area,
                          gaze_data.right_gaze_point_on_display_area)>>
    ELSE None

(***************************************************************************)
(* in_contingent_area: x, y in thousandths of a pixel.  Returns "True",    *)
(* "False" or "None" (the function falls off its end).                     *)
(***************************************************************************)
in_contingent_area_flipped(x, y) ==
    LET selection_x == (body_size.width * 1000) \div 4
        search_x    == ((body_size.width * 1000) \div 4) * 3
        selection_y == 70000 + ((body_size.height - 70) * 1000) \div 3
        center_y_up == (body_size.height - 100) * 1000
        search_y    == 130000
        recommend_y == 70000
    IN  IF x > search_x THEN "False"
        ELSE IF x < selection_x
             THEN (IF y < selection_y THEN "True" ELSE "False")
        ELSE IF y > recommend_y /\ y < center_y_up
             THEN (IF page_has_input
                   THEN (IF y > search_y THEN "True" ELSE "None")
                   ELSE "True")
        ELSE "None"

in_contingent_area_no_search(x, y) ==
    LET selection_x == (body_size.width * 1000) \div 4
        search_x    == ((body_size.width * 1000) \div 4) * 3
        selection_y == 70000 + ((body_size.height - 70) * 1000) \div 3
        center_y_up == (body_size.height - 100) * 1000
        recommend_y == 70000
    IN  IF x > search_x THEN "False"
        ELSE IF x < selection_x
             THEN (IF y > selection_y THEN "True" ELSE "False")
        ELSE IF y > recommend_y /\ y < center_y_up THEN "True"
        ELSE "None"

in_contingent_area(x, y) ==
    LET selection_x == (body_size.width * 1000) \div 4
        search_x    == ((body_size.width * 1000) \div 4) * 3
        selection_y == 70000 + ((body_size.height - 70) * 1000) \div 3
        center_y_up == (body_size.height - 100) * 1000
        search_y    == 130000
        recommend_y == 70000
    IN  IF x > search_x THEN "False"
        ELSE IF x < selection_x
             THEN (IF y > selection_y THEN "True" ELSE "False")
        ELSE IF y > recommend_y /\ y < center_y_up
             THEN (IF page_has_input
                   THEN (IF y > search_y THEN "True" ELSE "None")
                   ELSE "True")
        ELSE "None"

(***************************************************************************)
(* The samples the tracker delivers.  Each geometry gives both eyes'       *)
(* origins, gaze points (user space) and gaze points on the display.       *)
(*   1: ray (1,0,17), display left quarter, low on the page                *)
(*   2: ray (1,0,16), display centre, between recommend_y and search_y     *)
(*   3: ray (1,0,18), display right quarter                                *)
(*   4: ray (0,0,0),  the gaze point coincides with the eye origin         *)
(*   5: ray (4,0,17), display left quarter, high on the page               *)
(* Rays 1-2 and 1-3 differ by less than the threshold angle, 2-3 and       *)
(* every pair with 5 by more.                                              *)
(***************************************************************************)
Geometry ==
    <<[lo |-> <<-1, 0, 17>>, ro |-> <<1, 0, 17>>, lp |-> <<-2, 0, 0>>,  rp |-> <<0, 0, 0>>,
       ld |-> <<90, 800>>,  rd |-> <<110, 800>>],
      [lo |-> <<-1, 0, 17>>, ro |-> <<1, 0, 17>>, lp |-> <<-1, 0, 1>>,  rp |-> <<-1, 0, 1>>,
       ld |-> <<490, 150>>, rd |-> <<510, 150>>],
      [lo |-> <<-1, 0, 18>>, ro |-> <<1, 0, 18>>, lp |-> <<-2, 0, 0>>,  rp |-> <<0, 0, 0>>,
       ld |-> <<890, 500>>, rd |-> <<910, 500>>],
      [lo |-> <<-1, 0, 17>>, ro |-> <<1, 0, 17>>, lp |-> <<-1, 0, 17>>, rp |-> <<1, 0, 17>>,
       ld |-> <<500, 500>>, rd |-> <<500, 500>>],
      [lo |-> <<-1, 0, 17>>, ro |-> <<1, 0, 17>>, lp |-> <<-4, 0, 0>>,  rp |-> <<-4, 0, 0>>,
       ld |-> <<100, 200>>, rd |-> <<100, 200>>]>>

\* a gaze_data dictionary as tobii_research delivers it (as_dictionary=True)
gaze_data_of(g, vlo, vro, vlp, vrp) ==
    [left_gaze_origin_validity  |-> vlo,
     right_gaze_origin_validity |-> vro,
     left_gaze_point_validity   |-> vlp,
     right_gaze_point_validity  |-> vrp,
     left_gaze_origin_in_user_coordinate_system  |-> g.lo,
     right_gaze_origin_in_user_coordinate_system |-> g.ro,
     left_gaze_point_in_user_coordinate_system   |-> g.lp,
     right_gaze_point_in_user_coordinate_system  |-> g.rp,
     left_gaze_point_on_display_area  |-> g.ld,
     right_gaze_point_on_display_area |-> g.rd]

\* every combination of geometry and validity flags
GazeData ==
    {gaze_data_of(Geometry[i], vlo, vro, vlp, vrp) :
        i \in 1..Len(Geometry), vlo \in BOOLEAN, vro \in BOOLEAN,
        vlp \in BOOLEAN, vrp \in BOOLEAN}

\* the samples of a session: an eye the tracker does not find has neither a
\* valid origin nor a valid gaze point
StreamData ==
    {gaze_data_of(Geometry[i], vl, vr, vl, vr) :
        i \in 1..Len(Geometry), vl \in BOOLEAN, vr \in BOOLEAN}

(***************************************************************************)
(* ivt                                                                     *)
(***************************************************************************)
\* the gaze ray of a parsed sample: np.subtract(origin, u_target)
ray(sample) == np_subtract(sample[1], sample[2])

\* `if not previous_sample: previous_sample = origin, u_target, s_target; pass`
\* followed by `p_origin, p_u_target, p_s_target = previous_sample`: the sample
\* the new one is compared with
compared_sample_self(prev, sample) == sample

compared_sample(prev, sample) == IF prev = None THEN sample ELSE prev

next_duration_no_reset(duration, exceeds) ==
    IF exceeds THEN duration ELSE duration + 1

\* the saccade / fixation labelling of a sample
next_duration(duration, exceeds) ==
    IF exceeds
    THEN (IF duration > 0 THEN 0 ELSE duration)
    ELSE duration + 1

trigger_condition_at_least(duration) == duration >= FIXATION_TRIGGER

\* `if fixation_duration == FIXATION_TRIGGER`
trigger_condition(duration) == duration = FIXATION_TRIGGER

\* parse_data returned None: the tuple unpacking raises TypeError before any
\* global is assigned.  What the tracker's delivery thread does with an error
\* raised by a callback is outside this repository: it goes on or it stops.
ivt_TypeError_forgets ==
    /\ outcome' = "TypeError"
    /\ streaming' \in BOOLEAN
    /\ previous_sample' = None
    /\ fixation_duration' = 0
    /\ trigger_target' = None
    /\ click' = None
    /\ UNCHANGED <<last_valid, since_reset, triggers_in_run>>

ivt_TypeError_counts ==
    /\ outcome' = "TypeError"
    /\ streaming' \in BOOLEAN
    /\ fixation_duration' = fixation_duration + 1
    /\ trigger_target' = None
    /\ click' = None
    /\ UNCHANGED <<previous_sample, last_valid, since_reset, triggers_in_run>>

ivt_TypeError ==
    /\ outcome' = "TypeError"
    /\ streaming' \in BOOLEAN
    /\ trigger_target' = None
    /\ click' = None
    /\ UNCHANGED <<previous_sample, fixation_duration, last_valid, since_reset,
                   triggers_in_run>>

click_point_previous(sample, p_sample) ==
    <<body_size.width * p_sample[3][1], body_size.height * p_sample[3][2]>>

\* x, y = (body_size['width']*s_target[0], body_size['height']*s_target[1])
click_point(sample, p_sample) ==
    <<body_size.width * sample[3][1], body_size.height * sample[3][2]>>

ivt_sample(sample) ==
    LET p_sample == compared_sample(previous_sample, sample)
        ray1     == ray(sample)
        ray2     == ray(p_sample)
        angle    == angle_between(ray1, ray2)
        exceeds  == velocity_exceeds(angle)
        duration == next_duration(fixation_duration, exceeds)
        s_target == sample[3]
        x        == click_point(sample, p_sample)[1]
        y        == click_point(sample, p_sample)[2]
    IN  /\ previous_sample' = sample
        /\ fixation_duration' = duration
        /\ trigger_target' = IF trigger_condition(duration) THEN s_target ELSE None
        /\ click' = IF trigger_condition(duration) /\ in_contingent_area(x, y) = "True"
                    THEN <<x, y>> ELSE None
        /\ outcome' = "returned"
        /\ streaming' = streaming
        /\ last_valid' = sample
        /\ since_reset' = IF exceeds THEN 0
                          ELSE IF since_reset >= 0 THEN since_reset + 1 ELSE since_reset
        /\ triggers_in_run' =
              IF duration = 0 THEN 0
              ELSE IF trigger_condition(duration)
                   THEN (IF triggers_in_run < 2 THEN triggers_in_run + 1 ELSE 2)
              ELSE triggers_in_run

\* the window of regular samples at the start of the session (history only)
window_after(sample) ==
    LET nan     == sample # None
                   /\ angle_between(ray(sample),
                         ray(compared_sample(previous_sample, sample))).nan
        exceeds == sample # None
                   /\ velocity_exceeds(angle_between(ray(sample),
                         ray(compared_sample(previous_sample, sample))))
        stays   == /\ in_window
                   /\ sample # None
                   /\ ~nan
                   /\ ~(exceeds /\ saccade_at # 0)
                   /\ sample_no < MaxWindow
    IN  /\ in_window' = stays
        /\ sample_no' = IF stays THEN sample_no + 1 ELSE 0
        /\ saccade_at' = IF ~stays THEN 0
                         ELSE IF exceeds THEN sample_no + 1
                         ELSE saccade_at

ivt(gaze_data) ==
    LET sample == parse_data(gaze_data)
    IN  /\ IF sample = None THEN ivt_TypeError ELSE ivt_sample(sample)
        /\ window_after(sample)

\* no call of in_contingent_area on its own is under way
area_idle ==
    /\ ica_arg = <<0, 0>>
    /\ ica_done = FALSE
    /\ ica_ret = "None"

\* tracker.py's module globals, before any sample
tracker_idle ==
    /\ t_previous_sample = None
    /\ t_fixation_duration = 0
    /\ t_printed = None

\* the second run's module globals, before any sample
pair_idle ==
    /\ b_previous_sample = None
    /\ b_fixation_duration = 0
    /\ b_trigger_target = None
    /\ phase = "apart"
    /\ differed = FALSE

\* the threads that may deliver gaze_data_callback
Threads == {1, 2}

\* a thread that is not inside ivt
idle_thread == [pc |-> "idle", sample |-> None, p_sample |-> None, duration |-> 0]

\* no thread is inside ivt and none has been
thread_idle ==
    /\ th = [t \in Threads |-> idle_thread]
    /\ calls = 0
    /\ fires = 0
    /\ serial = [previous_sample |-> None, fixation_duration |-> 0, fires |-> 0]
    /\ overlapped = FALSE

other_idle == area_idle /\ tracker_idle /\ pair_idle /\ thread_idle

(***************************************************************************)
(* Actions                                                                 *)
(***************************************************************************)
\* the tracker delivers a sample: gaze_data_callback runs ivt
gaze_data_callback(gaze_data) ==
    /\ streaming
    /\ ivt(gaze_data)
    /\ fixation_duration' <= MaxDuration
    /\ UNCHANGED <<page_has_input, pd_arg, pd_done, pd_ret, other_vars>>

Deliver == \E gaze_data \in StreamData : gaze_data_callback(gaze_data)

\* the user presses a key: start_tracker unsubscribes the callback
Unsubscribe ==
    /\ streaming
    /\ streaming' = FALSE
    /\ UNCHANGED <<previous_sample, fixation_duration, page_has_input, outcome,
                   trigger_target, click, in_window, sample_no, saccade_at,
                   triggers_in_run, last_valid, since_reset,
                   pd_arg, pd_done, pd_ret, other_vars>>

\* the application switches between its search view (with an <input>) and
\* its recommendation view (without)
Navigate ==
    /\ streaming
    /\ page_has_input' = ~page_has_input
    /\ UNCHANGED <<previous_sample, fixation_duration, streaming, outcome,
                   trigger_target, click, in_window, sample_no, saccade_at,
                   triggers_in_run, last_valid, since_reset,
                   pd_arg, pd_done, pd_ret, other_vars>>

Init ==
    /\ previous_sample = None
    /\ fixation_duration = 0
    /\ page_has_input \in BOOLEAN
    /\ streaming = TRUE
    /\ outcome = "none"
    /\ trigger_target = None
    /\ click = None
    /\ in_window = TRUE
    /\ sample_no = 0
    /\ saccade_at = 0
    /\ triggers_in_run = 0
    /\ last_valid = None
    /\ since_reset = -1
    /\ pd_arg = None
    /\ pd_done = FALSE
    /\ pd_ret = None
    /\ other_idle

Next == Deliver \/ Unsubscribe \/ Navigate

Spec == Init /\ [][Next]_vars

(***************************************************************************)
(* parse_data on its own: one call on an arbitrary gaze_data dictionary    *)
(***************************************************************************)
InitParse ==
    /\ previous_sample = None
    /\ fixation_duration = 0
    /\ page_has_input \in BOOLEAN
    /\ streaming = TRUE
    /\ outcome = "none"
    /\ trigger_target = None
    /\ click = None
    /\ in_window = TRUE
    /\ sample_no = 0
    /\ saccade_at = 0
    /\ triggers_in_run = 0
    /\ last_valid = None
    /\ since_reset = -1
    /\ pd_arg \in GazeData
    /\ pd_done = FALSE
    /\ pd_ret = None
    /\ other_idle

ParseCall ==
    /\ ~pd_done
    /\ pd_done' = TRUE
    /\ pd_ret' = parse_data(pd_arg)
    /\ UNCHANGED <<previous_sample, fixation_duration, page_has_input, streaming,
                   outcome, trigger_target, click, in_window, sample_no, saccade_at,
                   triggers_in_run, last_valid, since_reset, pd_arg, other_vars>>

SpecParse == InitParse /\ [][ParseCall]_vars

(***************************************************************************)
(* in_contingent_area on its own: one call on a point of the page, in      *)
(* thousandths of a pixel, around every boundary the function tests        *)
(***************************************************************************)
AreaXs == {0, 100000, 199999, 200000, 200001, 400000, 599999, 600000, 600001,
           700000, 800000}

AreaYs == {0, 69999, 70000, 70001, 100000, 129999, 130000, 130001, 246666, 246667,
           300000, 499999, 500000, 500001, 600000}

\* the classifier as the module globals leave it, before any sample
session_start ==
    /\ previous_sample = None
    /\ fixation_duration = 0
    /\ streaming = TRUE
    /\ outcome = "none"
    /\ trigger_target = None
    /\ click = None
    /\ in_window = TRUE
    /\ sample_no = 0
    /\ saccade_at = 0
    /\ triggers_in_run = 0
    /\ last_valid = None
    /\ since_reset = -1
    /\ pd_arg = None
    /\ pd_done = FALSE
    /\ pd_ret = None

InitArea ==
    /\ session_start
    /\ page_has_input \in BOOLEAN
    /\ ica_arg \in AreaXs \X AreaYs
    /\ ica_done = FALSE
    /\ ica_ret = "None"
    /\ tracker_idle
    /\ pair_idle
    /\ thread_idle

AreaCall ==
    /\ ~ica_done
    /\ ica_done' = TRUE
    /\ ica_ret' = in_contingent_area(ica_arg[1], ica_arg[2])
    /\ UNCHANGED <<previous_sample, fixation_duration, page_has_input, streaming,
                   outcome, trigger_target, click, in_window, sample_no, saccade_at,
                   triggers_in_run, last_valid, since_reset, pd_arg, pd_done, pd_ret,
                   ica_arg, tracker_vars, pair_vars, thread_vars>>

SpecArea == InitArea /\ [][AreaCall]_vars

(***************************************************************************)
(* tracker.py, the print-only script.  Its parse_data, average_vertex,     *)
(* unit_vector and angle_between are the text of experiment.py's, and so   *)
(* are _SAMPLE_FREQ and ANG_VELOCITY_THRESHOLD; its FIXATION_TRIGGER is    *)
(* .3*_SAMPLE_FREQ, which evaluates to exactly 27.0.  tracker_ivt is one   *)
(* call of its ivt on the globals <<prev, duration>>.                      *)
(***************************************************************************)
tracker_FIXATION_TRIGGER == (3 * SAMPLE_FREQ) \div 10

tracker_ivt_first_only_stored(prev, duration, gaze_data) ==
    LET sample == parse_data(gaze_data)
    IN  IF sample = None
        THEN [raised |-> TRUE, previous_sample |-> prev,
              fixation_duration |-> duration, printed |-> None]
        ELSE IF prev = None
        THEN [raised |-> FALSE, previous_sample |-> sample,
              fixation_duration |-> duration, printed |-> None]
        ELSE
          LET ray1  == np_subtract(sample[1], sample[2])
              ray2  == np_subtract(prev[1], prev[2])
              angle == angle_between(ray1, ray2)
              next  == IF velocity_exceeds(angle)
                       THEN (IF duration > 0 THEN 0 ELSE duration)
                       ELSE duration + 1
          IN  [raised |-> FALSE, previous_sample |-> sample,
               fixation_duration |-> next,
               printed |-> IF next = tracker_FIXATION_TRIGGER THEN sample[3] ELSE None]

tracker_ivt(prev, duration, gaze_data) ==
    LET sample == parse_data(gaze_data)
    IN  IF sample = None
        THEN [raised |-> TRUE, previous_sample |-> prev,
              fixation_duration |-> duration, printed |-> None]
        ELSE
          LET p_sample == IF prev = None THEN sample ELSE prev
              ray1  == np_subtract(sample[1], sample[2])
              ray2  == np_subtract(p_sample[1], p_sample[2])
              angle == angle_between(ray1, ray2)
              next  == IF velocity_exceeds(angle)
                       THEN (IF duration > 0 THEN 0 ELSE duration)
                       ELSE duration + 1
          IN  [raised |-> FALSE, previous_sample |-> sample,
               fixation_duration |-> next,
               printed |-> IF next = tracker_FIXATION_TRIGGER THEN sample[3] ELSE None]

\* the same sample is delivered to experiment.py's and to tracker.py's callback
TwinDeliver ==
    \E gaze_data \in StreamData :
        LET t == tracker_ivt(t_previous_sample, t_fixation_duration, gaze_data)
        IN  /\ streaming
            /\ ivt(gaze_data)
            /\ fixation_duration' <= MaxTwinDuration
            /\ t_previous_sample' = t.previous_sample
            /\ t_fixation_duration' = t.fixation_duration
            /\ t_printed' = t.printed
            /\ t.fixation_duration <= MaxTwinDuration
            /\ UNCHANGED <<page_has_input, pd_arg, pd_done, pd_ret, area_vars, pair_vars,
                           thread_vars>>

SpecTwin == Init /\ [][TwinDeliver]_vars

(***************************************************************************)
(* Two runs of experiment.py with different histories.  ivt_result is one  *)
(* call of ivt on the globals <<prev, duration>> of the second run; the    *)
(* first run is the one of Spec.                                           *)
(***************************************************************************)
ivt_result(prev, duration, gaze_data) ==
    LET sample == parse_data(gaze_data)
    IN  IF sample = None
        THEN [previous_sample |-> prev, fixation_duration |-> duration,
              trigger_target |-> None, exceeds |-> FALSE]
        ELSE
          LET p_sample == compared_sample(prev, sample)
              exceeds  == velocity_exceeds(angle_between(ray(sample), ray(p_sample)))
              next     == next_duration(duration, exceeds)
          IN  [previous_sample |-> sample, fixation_duration |-> next,
               trigger_target |-> IF trigger_condition(next) THEN sample[3] ELSE None,
               exceeds |-> exceeds]

\* the samples the two runs are fed: two gaze directions further apart than
\* the threshold, found by both eyes, and a sample with no eye found
PairData ==
    {gaze_data_of(Geometry[i], TRUE, TRUE, TRUE, TRUE) : i \in {1, 5}}
        \cup {gaze_data_of(Geometry[1], FALSE, FALSE, FALSE, FALSE)}

b_ivt(gaze_data) ==
    LET b == ivt_result(b_previous_sample, b_fixation_duration, gaze_data)
    IN  /\ b_previous_sample' = b.previous_sample
        /\ b_fixation_duration' = b.fixation_duration
        /\ b_trigger_target' = b.trigger_target
        /\ b.fixation_duration <= MaxPairDuration

\* the first run receives a sample of its own history
FeedA ==
    \E gaze_data \in PairData :
        /\ phase = "apart"
        /\ ivt(gaze_data)
        /\ fixation_duration' <= MaxPairDuration
        /\ UNCHANGED <<page_has_input, pd_arg, pd_done, pd_ret, area_vars,
                       tracker_vars, pair_vars, thread_vars>>

\* the second run receives a sample of its own history
FeedB ==
    \E gaze_data \in PairData :
        /\ phase = "apart"
        /\ b_ivt(gaze_data)
        /\ UNCHANGED <<previous_sample, fixation_duration, page_has_input, streaming,
                       outcome, trigger_target, click, in_window, sample_no,
                       saccade_at, triggers_in_run, last_valid, since_reset,
                       pd_arg, pd_done, pd_ret, area_vars, tracker_vars,
                       phase, differed, thread_vars>>

\* both runs receive the same sample, which both classify as a saccade
Join ==
    \E gaze_data \in PairData :
        /\ phase = "apart"
        /\ ivt_result(b_previous_sample, b_fixation_duration, gaze_data).exceeds
        /\ ivt_result(previous_sample, fixation_duration, gaze_data).exceeds
        /\ ivt(gaze_data)
        /\ b_ivt(gaze_data)
        /\ phase' = "join"
        /\ differed' = (<<previous_sample, fixation_duration>>
                           # <<b_previous_sample, b_fixation_duration>>)
        /\ UNCHANGED <<page_has_input, pd_arg, pd_done, pd_ret, area_vars, tracker_vars,
                       thread_vars>>

\* after the common saccade both runs receive the same samples
FeedBoth ==
    \E gaze_data \in PairData :
        /\ phase \in {"join", "joined"}
        /\ ivt(gaze_data)
        /\ fixation_duration' <= MaxPairDuration
        /\ b_ivt(gaze_data)
        /\ phase' = "joined"
        /\ UNCHANGED <<page_has_input, pd_arg, pd_done, pd_ret, area_vars,
                       tracker_vars, differed, thread_vars>>

NextPair == FeedA \/ FeedB \/ Join \/ FeedBoth

SpecPair == Init /\ [][NextPair]_vars

(***************************************************************************)
(* ivt entered by more than one thread.  ivt takes no lock and the globals *)
(* are read and written by separate statements, so each read and each      *)
(* write of previous_sample and fixation_duration is a step of its own;    *)
(* `fixation_duration += 1` is a read followed by a write.                 *)
(***************************************************************************)
\* the variables of the session the threads leave alone
session_vars == <<page_has_input, streaming, outcome, trigger_target, click,
                  in_window, sample_no, saccade_at, triggers_in_run, last_valid,
                  since_reset, pd_arg, pd_done, pd_ret>>

all_idle == \A t \in Threads : th[t].pc = "idle"

\* the classifier as a session before the threads' invocations can have left
\* it: untouched, or after a sample of the first gaze direction with the
\* counter anywhere up to the trigger
InitThreads ==
    /\ \/ previous_sample = None /\ fixation_duration = 0
       \/ /\ previous_sample = parse_data(gaze_data_of(Geometry[1], TRUE, TRUE, TRUE, TRUE))
          /\ fixation_duration \in 0..FIXATION_TRIGGER
    /\ page_has_input \in BOOLEAN
    /\ streaming = TRUE
    /\ outcome = "none"
    /\ trigger_target = None
    /\ click = None
    /\ in_window = FALSE
    /\ sample_no = 0
    /\ saccade_at = 0
    /\ triggers_in_run = 0
    /\ last_valid = None
    /\ since_reset = -1
    /\ pd_arg = None
    /\ pd_done = FALSE
    /\ pd_ret = None
    /\ area_idle
    /\ tracker_idle
    /\ pair_idle
    /\ th = [t \in Threads |-> idle_thread]
    /\ calls = 0
    /\ fires = 0
    /\ serial = [previous_sample |-> previous_sample,
                 fixation_duration |-> fixation_duration, fires |-> 0]
    /\ overlapped = FALSE

\* the invocation run on the serial history
serial_after(gaze_data) ==
    LET r == ivt_result(serial.previous_sample, serial.fixation_duration, gaze_data)
    IN  [previous_sample |-> r.previous_sample,
         fixation_duration |-> r.fixation_duration,
         fires |-> IF r.trigger_target # None THEN serial.fires + 1 ELSE serial.fires]

\* a thread enters gaze_data_callback: parse_data and the unpacking of its result
ThreadCall(t, gaze_data) ==
    LET sample == parse_data(gaze_data)
    IN  /\ th[t].pc = "idle"
        /\ calls < MaxCalls
        /\ calls' = calls + 1
        /\ overlapped' = (overlapped \/ \E u \in Threads : th[u].pc # "idle")
        /\ serial' = serial_after(gaze_data)
        /\ th' = IF sample = None THEN th
                 ELSE [th EXCEPT ![t] = [idle_thread EXCEPT !.pc = "check", !.sample = sample]]
        /\ UNCHANGED <<previous_sample, fixation_duration, fires, session_vars,
                       area_vars, tracker_vars, pair_vars>>

\* `if not previous_sample:`
ThreadCheck(t) ==
    /\ th[t].pc = "check"
    /\ th' = [th EXCEPT ![t].pc = IF previous_sample = None THEN "init" ELSE "unpack"]
    /\ UNCHANGED <<previous_sample, fixation_duration, calls, fires, serial, overlapped,
                   session_vars, area_vars, tracker_vars, pair_vars>>

\* `previous_sample = origin, u_target, s_target` of the first-sample branch
ThreadInit(t) ==
    /\ th[t].pc = "init"
    /\ previous_sample' = th[t].sample
    /\ th' = [th EXCEPT ![t].pc = "unpack"]
    /\ UNCHANGED <<fixation_duration, calls, fires, serial, overlapped,
                   session_vars, area_vars, tracker_vars, pair_vars>>

\* `p_origin, p_u_target, p_s_target = previous_sample`
ThreadUnpack(t) ==
    /\ th[t].pc = "unpack"
    /\ th' = [th EXCEPT ![t].pc = "store", ![t].p_sample = previous_sample]
    /\ UNCHANGED <<previous_sample, fixation_duration, calls, fires, serial, overlapped,
                   session_vars, area_vars, tracker_vars, pair_vars>>

\* `previous_sample = origin, u_target, s_target`
ThreadStore(t) ==
    /\ th[t].pc = "store"
    /\ previous_sample' = th[t].sample
    /\ th' = [th EXCEPT ![t].pc = "label"]
    /\ UNCHANGED <<fixation_duration, calls, fires, serial, overlapped,
                   session_vars, area_vars, tracker_vars, pair_vars>>

after_label_no_reset(exceeds, duration) ==
    IF exceeds THEN "test" ELSE "load"

\* where the labelling `if` / nested `if` / `else` sends the thread
after_label(exceeds, duration) ==
    IF exceeds
    THEN (IF duration > 0 THEN "reset" ELSE "test")
    ELSE "load"

\* the angle of the thread's own two samples and the reads of the labelling tests
ThreadLabel(t) ==
    LET exceeds == velocity_exceeds(angle_between(ray(th[t].sample), ray(th[t].p_sample)))
    IN  /\ th[t].pc = "label"
        /\ th' = [th EXCEPT ![t].pc = after_label(exceeds, fixation_duration)]
        /\ UNCHANGED <<previous_sample, fixation_duration, calls, fires, serial,
                       overlapped, session_vars, area_vars, tracker_vars, pair_vars>>

\* `fixation_duration = 0`
ThreadReset(t) ==
    /\ th[t].pc = "reset"
    /\ fixation_duration' = 0
    /\ th' = [th EXCEPT ![t].pc = "test"]
    /\ UNCHANGED <<previous_sample, calls, fires, serial, overlapped,
                   session_vars, area_vars, tracker_vars, pair_vars>>

\* `fixation_duration += 1`: the read
ThreadLoad(t) ==
    /\ th[t].pc = "load"
    /\ th' = [th EXCEPT ![t].pc = "add", ![t].duration = fixation_duration]
    /\ UNCHANGED <<previous_sample, fixation_duration, calls, fires, serial, overlapped,
                   session_vars, area_vars, tracker_vars, pair_vars>>

\* `fixation_duration += 1`: the write
ThreadAdd(t) ==
    /\ th[t].pc = "add"
    /\ fixation_duration' = th[t].duration + 1
    /\ th' = [th EXCEPT ![t].pc = "test"]
    /\ UNCHANGED <<previous_sample, calls, fires, serial, overlapped,
                   session_vars, area_vars, tracker_vars, pair_vars>>

\* `if fixation_duration == FIXATION_TRIGGER:` and the return
ThreadTest(t) ==
    /\ th[t].pc = "test"
    /\ fires' = IF trigger_condition(fixation_duration) THEN fires + 1 ELSE fires
    /\ th' = [th EXCEPT ![t] = idle_thread]
    /\ UNCHANGED <<previous_sample, fixation_duration, calls, serial, overlapped,
                   session_vars, area_vars, tracker_vars, pair_vars>>

NextThreads ==
    \E t \in Threads :
        \/ \E gaze_data \in PairData : ThreadCall(t, gaze_data)
        \/ ThreadCheck(t)
        \/ ThreadInit(t)
        \/ ThreadUnpack(t)
        \/ ThreadStore(t)
        \/ ThreadLabel(t)
        \/ ThreadReset(t)
        \/ ThreadLoad(t)
        \/ ThreadAdd(t)
        \/ ThreadTest(t)

SpecThreads == InitThreads /\ [][NextThreads]_vars

(***************************************************************************)
(* Properties                                                              *)
(***************************************************************************)
\* the trigger condition held on the last tick
fired == trigger_target # None

\* C1: the trigger fires exactly once per run of fixation-labelled samples that
\* reaches FIXATION_TRIGGER: no trigger while the run counter is below the
\* trigger length, exactly one from the tick on which it equals it, however
\* long the run goes on; a trigger tick leaves the counter equal to the
\* trigger length; the count of triggers starts again only when a saccade
\* resets the counter to 0.
C1_TriggerOncePerRun ==
    /\ fixation_duration < FIXATION_TRIGGER => triggers_in_run = 0
    /\ fixation_duration >= FIXATION_TRIGGER => triggers_in_run = 1
    /\ fired => fixation_duration = FIXATION_TRIGGER

\* a second run, begun by a saccade, has gone on past the trigger length
C1_Witness ==
    /\ since_reset > FIXATION_TRIGGER
    /\ fixation_duration > FIXATION_TRIGGER
    /\ triggers_in_run = 1

\* C2: from the initial state, with every sample valid and none a saccade, the
\* trigger fires at sample number FIXATION_TRIGGER + 1 and at no other sample,
\* and it carries the screen target of that sample.
C2_TriggerAtSampleNPlus1 ==
    (in_window /\ saccade_at = 0 /\ sample_no >= 1) =>
        /\ fired <=> sample_no = FIXATION_TRIGGER + 1
        /\ fired => trigger_target = last_valid[3]

\* C3: the first valid sample of the session is stored as previous_sample and
\* nothing else happens on that tick: the counter keeps its value and no
\* trigger fires.
C3_FirstSampleOnlyStored ==
    [][(previous_sample = None /\ previous_sample' # None) =>
           /\ fixation_duration' = fixation_duration
           /\ trigger_target' = None]_vars

\* C4: on a valid sample that is not the first, the counter becomes 0 if the
\* angular velocity is above the threshold and its previous value plus 1
\* otherwise; on every other tick the counter does not change; the counter is
\* a natural number.
C4_CounterRule ==
    [][\A g \in StreamData : gaze_data_callback(g) =>
          LET sample == parse_data(g)
          IN  /\ IF sample # None /\ previous_sample # None
                 THEN fixation_duration' =
                        IF velocity_exceeds(angle_between(ray(sample),
                                                          ray(previous_sample)))
                        THEN 0 ELSE fixation_duration + 1
                 ELSE fixation_duration' = fixation_duration
              /\ fixation_duration' \in Nat]_vars

\* The part of C4 that the code satisfies: the rule on every valid sample after
\* the first; the first valid sample adds 1 as well; an invalid one changes
\* nothing.
CounterRuleAfterFirstSample ==
    [][\A g \in StreamData : gaze_data_callback(g) =>
          LET sample == parse_data(g)
          IN  /\ (sample # None /\ previous_sample # None) =>
                    fixation_duration' =
                        IF velocity_exceeds(angle_between(ray(sample),
                                                          ray(previous_sample)))
                        THEN 0 ELSE fixation_duration + 1
              /\ (sample # None /\ previous_sample = None) =>
                    fixation_duration' = fixation_duration + 1
              /\ sample = None => fixation_duration' = fixation_duration
              /\ fixation_duration' \in Nat]_vars

\* C5: an invalid sample leaves previous_sample (the last valid sample) and
\* fixation_duration as they were, and the valid sample after it is labelled
\* by its angle to the last valid sample before the gap.
C5_InvalidSampleLeavesState ==
    [][\A g \in StreamData : gaze_data_callback(g) =>
          LET sample == parse_data(g)
          IN  /\ sample = None =>
                    /\ previous_sample' = previous_sample
                    /\ fixation_duration' = fixation_duration
                    /\ previous_sample' = last_valid'
              /\ (sample # None /\ outcome = "TypeError" /\ last_valid # None) =>
                    fixation_duration' =
                        IF velocity_exceeds(angle_between(ray(sample), ray(last_valid)))
                        THEN 0 ELSE fixation_duration + 1]_vars

\* an invalid sample has arrived in the middle of a fixation
C5_Witness ==
    /\ outcome = "TypeError"
    /\ previous_sample # None
    /\ fixation_duration > 1
    /\ streaming

\* C6: no tick ends with an error raised out of the callback.
C6_NoErrorFromCallback == outcome # "TypeError"

\* C7: after a saccade sample no trigger fires until FIXATION_TRIGGER further
\* fixation-labelled samples have been processed, and it fires on that one; in
\* a window of valid samples whose only saccade is sample 10, the counter is 0
\* after sample 10 and no trigger fires up to sample 21.
C7_NoTriggerBeforeNAfterSaccade ==
    /\ (since_reset >= 0 /\ fired) => since_reset = FIXATION_TRIGGER
    /\ (since_reset >= 0 /\ since_reset < FIXATION_TRIGGER) => triggers_in_run = 0
    /\ since_reset >= FIXATION_TRIGGER => triggers_in_run = 1
    /\ (in_window /\ saccade_at = 0 /\ sample_no < 10) => ~fired
    /\ (in_window /\ saccade_at = 10 /\ sample_no <= 21) =>
          /\ ~fired
          /\ triggers_in_run = 0
          /\ sample_no = 10 => fixation_duration = 0

\* sample 20 of a window whose sample 10 was the saccade
C7_Witness ==
    /\ in_window
    /\ saccade_at = 10
    /\ sample_no = 20
    /\ fixation_duration = 10

\* C8 (as claimed): after a tick on which the trigger fired the counter is 0.
C8_ResetAfterTrigger == fired => fixation_duration = 0

\* C8 (amended): a trigger does not reset the counter: after a tick on which
\* the trigger fired the counter equals FIXATION_TRIGGER, and for as long as
\* the run goes on after its trigger the counter stays at or above it.
C8_CounterKeptAfterTrigger ==
    /\ fired => (fixation_duration = FIXATION_TRIGGER /\ triggers_in_run = 1)
    /\ triggers_in_run >= 1 => fixation_duration >= FIXATION_TRIGGER

\* the tick on which the trigger fired
C8_Witness ==
    /\ fired
    /\ outcome = "returned"
    /\ fixation_duration = FIXATION_TRIGGER

\* C9: parse_data returns a sample exactly when both origin validity flags are
\* true, whatever the gaze-point validity flags; the sample holds the means of
\* the two eyes' origins, gaze points and display points; the classifier's
\* state is not touched.
C9_ParseIffBothOriginsValid ==
    pd_done =>
        /\ pd_ret # None <=> (pd_arg.left_gaze_origin_validity
                              /\ pd_arg.right_gaze_origin_validity)
        /\ pd_ret # None =>
              /\ Len(pd_ret) = 3
              /\ \A i \in 1..3 :
                    /\ 2 * pd_ret[1][i] = pd_arg.left_gaze_origin_in_user_coordinate_system[i]
                                          + pd_arg.right_gaze_origin_in_user_coordinate_system[i]
                    /\ 2 * pd_ret[2][i] = pd_arg.left_gaze_point_in_user_coordinate_system[i]
                                          + pd_arg.right_gaze_point_in_user_coordinate_system[i]
              /\ \A i \in 1..2 :
                    2 * pd_ret[3][i] = pd_arg.left_gaze_point_on_display_area[i]
                                       + pd_arg.right_gaze_point_on_display_area[i]
        /\ previous_sample = None
        /\ fixation_duration = 0

\* a sample is returned although neither gaze point is flagged valid
C9_Witness ==
    /\ pd_done
    /\ pd_ret # None
    /\ ~pd_arg.left_gaze_point_validity
    /\ ~pd_arg.right_gaze_point_validity

\* C10: a valid sample whose ray, or whose predecessor's ray, has zero length
\* is skipped: the counter keeps its value and no trigger fires.
C10_DegenerateRaySkipped ==
    [][\A g \in StreamData :
          (/\ gaze_data_callback(g)
           /\ parse_data(g) # None
           /\ previous_sample # None
           /\ \/ norm2(ray(parse_data(g))) = 0
              \/ norm2(ray(previous_sample)) = 0) =>
              /\ fixation_duration' = fixation_duration
              /\ trigger_target' = None]_vars

\* C11: a tick dispatches a click exactly when, after its counter update,
\* fixation_duration equals FIXATION_TRIGGER and in_contingent_area(x, y) is
\* true for x = width * s_target[0], y = height * s_target[1] of the sample of
\* this tick; the click goes to that (x, y); no other step dispatches one.
C11_ClickOnlyOnGatedTrigger ==
    [][/\ \A g \in StreamData : gaze_data_callback(g) =>
             LET sample == parse_data(g)
                 x == IF sample = None THEN 0 ELSE body_size.width * sample[3][1]
                 y == IF sample = None THEN 0 ELSE body_size.height * sample[3][2]
             IN  /\ click' # None <=>
                       /\ sample # None
                       /\ fixation_duration' = FIXATION_TRIGGER
                       /\ in_contingent_area(x, y) = "True"
                 /\ click' # None => click' = <<x, y>>
       /\ (Unsubscribe \/ Navigate) => click' = click]_vars

\* a click was dispatched on the trigger tick
C11_Witness ==
    /\ click # None
    /\ fired
    /\ fixation_duration = FIXATION_TRIGGER

\* C14: after every tick that processes a valid sample, previous_sample is
\* that sample, and for a sample that is not the first the counter follows the
\* angle to the value previous_sample held before the tick.
C14_PreviousSampleIsLastValid ==
    [][\A g \in StreamData : (gaze_data_callback(g) /\ parse_data(g) # None) =>
          /\ previous_sample' = parse_data(g)
          /\ previous_sample # None =>
                fixation_duration' =
                    IF velocity_exceeds(angle_between(ray(parse_data(g)),
                                                      ray(previous_sample)))
                    THEN (IF fixation_duration > 0 THEN 0 ELSE fixation_duration)
                    ELSE fixation_duration + 1]_vars

\* a saccade has just ended a fixation: the sample differed from its predecessor
C14_Witness ==
    /\ since_reset = 0
    /\ outcome = "returned"
    /\ previous_sample # None
    /\ fixation_duration = 0

\* C15: the counter never skips over FIXATION_TRIGGER: a step leaves it, adds
\* 1 or sets it to 0, an invalid sample leaves it, and whenever it is above
\* FIXATION_TRIGGER the trigger has fired in the current run.
C15_CounterNeverSkipsTrigger ==
    [][/\ fixation_duration' \in {fixation_duration, fixation_duration + 1, 0}
       /\ outcome' = "TypeError" => fixation_duration' = fixation_duration
       /\ fixation_duration' >= FIXATION_TRIGGER => triggers_in_run' = 1]_vars

\* an invalid sample has arrived in a run that has passed the trigger length
C15_Witness ==
    /\ fixation_duration > FIXATION_TRIGGER
    /\ outcome = "TypeError"
    /\ triggers_in_run = 1

\* C12: in_contingent_area is false for every x in the right quarter
\* (x > 3/4 width), whatever y and the page; for x in the left quarter
\* (x < width/4) it is true when y > 70 + (height - 70)/3 and false otherwise.
C12_QuartersOfTheDisplay ==
    ica_done =>
        LET x == ica_arg[1]
            y == ica_arg[2]
        IN  /\ 4 * x > 3 * body_size.width * 1000 => ica_ret = "False"
            /\ 4 * x < body_size.width * 1000 =>
                  ica_ret = IF 3 * (y - 70000) > (body_size.height - 70) * 1000
                            THEN "True" ELSE "False"

\* a point of the left quarter below the selection threshold line is actionable
C12_Witness ==
    /\ ica_done
    /\ 4 * ica_arg[1] < body_size.width * 1000
    /\ ica_arg[2] = 246667
    /\ ica_ret = "True"

\* C18: for x in the centre (width/4 <= x <= 3/4 width) in_contingent_area is
\* true exactly when 70 < y < height - 100 and, if the page has a text input,
\* y > 130; every other result there is falsy.
C18_CentreRegion ==
    ica_done =>
        LET x == ica_arg[1]
            y == ica_arg[2]
        IN  (4 * x >= body_size.width * 1000 /\ 4 * x <= 3 * body_size.width * 1000) =>
               /\ ica_ret = "True" <=>
                     /\ y > 70000
                     /\ y < (body_size.height - 100) * 1000
                     /\ page_has_input => y > 130000
               /\ ica_ret \in {"True", "False", "None"}

\* with a text input on the page, a centre point between 70 and 130 is refused
C18_Witness ==
    /\ ica_done
    /\ ica_arg = <<400000, 100000>>
    /\ page_has_input
    /\ ica_ret = "None"

\* C17: fed the same samples from the initial state, tracker.py's and
\* experiment.py's classifiers hold the same previous_sample and
\* fixation_duration after every tick; experiment.py's trigger fires on the
\* ticks that leave the counter at 15, tracker.py prints on those that leave
\* it at 27, with the screen target of the tick's sample.
C17_SameStateMachine ==
    /\ t_previous_sample = previous_sample
    /\ t_fixation_duration = fixation_duration
    /\ fired <=> (outcome = "returned" /\ fixation_duration = FIXATION_TRIGGER)
    /\ t_printed # None <=>
          (outcome = "returned" /\ t_fixation_duration = tracker_FIXATION_TRIGGER)
    /\ t_printed # None => t_printed = previous_sample[3]
    /\ fired => trigger_target = t_previous_sample[3]

\* tracker.py prints its trigger, twelve samples after experiment.py's
C17_Witness ==
    /\ t_printed # None
    /\ fixation_duration = tracker_FIXATION_TRIGGER
    /\ ~fired

\* C13: whatever the two histories were, right after a sample s that both
\* runs classify as a saccade both hold previous_sample = s and
\* fixation_duration = 0, and while they then receive the same samples they
\* hold the same previous_sample and counter and trigger on the same ticks.
C13_NoHiddenState ==
    /\ phase = "join" =>
          /\ previous_sample = last_valid /\ fixation_duration = 0
          /\ b_previous_sample = last_valid /\ b_fixation_duration = 0
    /\ phase \in {"join", "joined"} =>
          /\ b_previous_sample = previous_sample
          /\ b_fixation_duration = fixation_duration
          /\ b_trigger_target = trigger_target

\* two runs whose globals differed before the common saccade trigger together
C13_Witness ==
    /\ phase = "joined"
    /\ differed
    /\ fired
    /\ b_trigger_target = trigger_target

====
